---- MODULE Spec2Model ----
(***************************************************************************)
(* Model of the bulk command batcher: async::connect / receive /          *)
(* disconnect (async.cxx) driving BatchConsoleInput, which owns a         *)
(* BatchCommandProcessor (the engine) and two Output subscribers          *)
(* (command_processor.h).                                                  *)
(***************************************************************************)
EXTENDS Integers, Sequences, FiniteSets, TLC

\* ---- bounds of the model ----
MaxBulk == 3      \* largest bulk size passed to connect
MaxData == 3      \* longest chunk (in characters) passed to receive
MaxLines == 6     \* total number of command lines fed in one session
MaxOps == 5       \* engine driven directly: number of calls of the owner
MaxRegs == 2      \* engine driven directly: longest subscriber registry

\* ---- program constants ----
NL == "\n"
START_BLOCK == <<"{">>
END_BLOCK == <<"}">>
Chars == {"a", "{", "}", NL}

\* the two subscribers BatchConsoleInput creates, in m_output order
Subs == {"ReportWriter", "ConsoleOutput"}
SessionOutputs == <<"ReportWriter", "ConsoleOutput">>

VARIABLES
  session,        \* "connected" | "deleted": the handle returned by connect;
                  \* "engine": a BatchCommandProcessor driven by its owner
  parts,          \* receive: the split lines not yet handed to ProcessCommand
  clock,          \* system_clock::now(), a logical clock
  fed,            \* history: the texts handed to BatchConsoleInput::ProcessCommand
  m_blockDepth,   \* BatchConsoleInput::m_blockDepth
  m_output,       \* BatchConsoleInput::m_output: the subscribers the owner holds
  m_bulkSize,     \* BatchCommandProcessor::m_bulkSize
  m_blockForced,  \* BatchCommandProcessor::m_blockForced
  m_commands,     \* BatchCommandProcessor::m_commands
  m_subscribers,  \* BatchCommandProcessor::m_subscribers (weak handles)
  sub_commands,   \* Output::m_commands of each subscriber: the last snapshot
  nUpdates,       \* number of update() calls each subscriber received
  flushed,        \* per subscriber, the batches its ProcessCommand wrote out
  pc,             \* engine position: "idle" | "dump" | "dtor" | "release" | "gone"
  op,             \* engine operation in progress or last run
  i,              \* DumpBatch: index of the spawn loop
  thr,            \* DumpBatch: the threads vector, one slot per registry entry
  staleRead,      \* the release loop read a registry slot that was erased
  terminated      \* std::terminate was called

vars == <<session, parts, clock, fed, m_blockDepth, m_output, m_bulkSize,
          m_blockForced, m_commands, m_subscribers, sub_commands, nUpdates,
          flushed, pc, op, i, thr, staleRead, terminated>>

\* ---- helpers ----
SeqsUpTo(S, n) == UNION { [1..k -> S] : k \in 0..n }

\* chunks receive is fed: newline-separated lines of one character
Data == { d \in SeqsUpTo(Chars, MaxData) :
            \A k \in 1..(Len(d) - 1) : d[k] = NL \/ d[k + 1] = NL }

RECURSIVE SplitOn(_, _, _)
\* boost::algorithm::split on is_any_of("\n"): every separator ends a token
SplitOn(data, cur, acc) ==
  IF data = <<>> THEN Append(acc, cur)
  ELSE IF Head(data) = NL
       THEN SplitOn(Tail(data), <<>>, Append(acc, cur))
       ELSE SplitOn(Tail(data), Append(cur, Head(data)), acc)

\* token_compress_on: adjacent separators count as one, so no empty token
\* between two separators; the tokens before a leading and after a trailing
\* separator remain
TokenCompress(toks) ==
  LET keep(k) == k = 1 \/ k = Len(toks) \/ toks[k] # <<>>
      idx == { k \in 1..Len(toks) : keep(k) }
      RECURSIVE pick(_)
      pick(k) == IF k > Len(toks) THEN <<>>
                 ELSE IF k \in idx THEN <<toks[k]>> \o pick(k + 1)
                 ELSE pick(k + 1)
  IN pick(1)

\* parts.erase(std::remove(parts.begin(), parts.end(), ""), parts.end())
RemoveEmpty(toks) == SelectSeq(toks, LAMBDA t : t # <<>>)

Split(data) == RemoveEmpty(TokenCompress(SplitOn(data, <<>>, <<>>)))

\* struct Command
Command(text, ts) == [text |-> text, timeStamp |-> ts]

NoThread == [st |-> "none", out |-> <<>>]

\* variant: the registry holding shared_ptr instead of weak_ptr
Live_strong(s) ==
  \/ s \in m_output
  \/ \E k \in DOMAIN m_subscribers : m_subscribers[k] = s

\* weak_ptr::lock() succeeds: the session owns the subscriber, or a flush
\* thread still holds the shared_ptr it captured
Live(s) ==
  \/ s \in m_output
  \/ \E k \in DOMAIN thr : m_subscribers[k] = s /\ thr[k].st \in {"ready", "running"}

\* notify(): every live registered subscriber gets update(cmds)
NotifySnap(cmds, snaps) ==
  [s \in Subs |->
     IF Live(s) /\ \E k \in DOMAIN m_subscribers : m_subscribers[k] = s
     THEN cmds ELSE snaps[s]]

NotifyCount(upd) ==
  [s \in Subs |->
     IF Live(s)
     THEN upd[s] + Cardinality({ k \in DOMAIN m_subscribers : m_subscribers[k] = s })
     ELSE upd[s]]

\* where an engine operation continues once DumpBatch has returned
Return(caller) == IF caller = "dtor" THEN "release" ELSE "idle"

\* variant: DumpBatch without its emptiness test
DumpNeeded_always(cmds) == TRUE

\* DumpBatch: if (!m_commands.empty())
DumpNeeded(cmds) == cmds # <<>>

\* variant: the size test written with > instead of >=
SizeTriggered_gt(forced, n, bulk) == ~forced /\ n > bulk

\* ProcessCommand: !m_blockForced && m_commands.size() >= m_bulkSize
SizeTriggered(forced, n, bulk) == ~forced /\ n >= bulk

\* variant: every Open marker calls StartBlock
OpensOuter_always(depth) == TRUE

\* variant: the test written if (m_blockDepth++ <= 0)
OpensOuter_le(depth) == depth <= 0

\* BatchConsoleInput::ProcessCommand: if (m_blockDepth++ == 0)
OpensOuter(depth) == depth = 0

\* variant: the decrement written postfix, if (m_blockDepth-- == 0)
ClosesOuter_post(depth) == depth = 0

\* BatchConsoleInput::ProcessCommand: if (--m_blockDepth == 0)
ClosesOuter(depth) == depth - 1 = 0

\* variant: DumpBatch without its join loop
Joined_nojoin == TRUE

\* DumpBatch: the join loop has passed every thread
Joined == \A k \in DOMAIN thr : thr[k].st \in {"none", "done"}

\* ---- initial state: after connect(bulk) ----
Init ==
  /\ session = "connected"
  /\ parts = <<>>
  /\ clock = 0
  /\ fed = <<>>
  /\ m_blockDepth = 0
  /\ m_output = Subs
  /\ m_bulkSize \in 0..MaxBulk
  /\ m_blockForced = FALSE
  /\ m_commands = <<>>
  /\ m_subscribers = SessionOutputs
  /\ sub_commands = [s \in Subs |-> <<>>]
  /\ nUpdates = [s \in Subs |-> 0]
  /\ flushed = [s \in Subs |-> <<>>]
  /\ pc = "idle"
  /\ op = "none"
  /\ i = 1
  /\ thr = [k \in DOMAIN SessionOutputs |-> NoThread]
  /\ staleRead = FALSE
  /\ terminated = FALSE

\* ---- engine ----
\* variant: ClearBatch without the clear()
ClearBatch_keep(snaps, upd) ==
  /\ m_commands' = m_commands
  /\ sub_commands' = NotifySnap(m_commands, snaps)
  /\ nUpdates' = NotifyCount(upd)

\* ClearBatch(): m_commands.clear(); notify();
ClearBatch(snaps, upd) ==
  /\ m_commands' = <<>>
  /\ sub_commands' = NotifySnap(<<>>, snaps)
  /\ nUpdates' = NotifyCount(upd)

\* DumpBatch(), up to its first thread: entered with the batch cmds, the
\* subscribers' snapshots snaps and update counts upd
DumpBatch(cmds, snaps, upd, caller) ==
  IF DumpNeeded(cmds)
  THEN /\ pc' = "dump"
       /\ i' = 1
       /\ m_commands' = cmds
       /\ sub_commands' = snaps
       /\ nUpdates' = upd
       /\ UNCHANGED thr
  ELSE /\ ClearBatch(snaps, upd)
       /\ pc' = Return(caller)
       /\ UNCHANGED <<i, thr>>

\* StartBlock()
StartBlock ==
  /\ m_blockForced' = TRUE
  /\ op' = "start"
  /\ DumpBatch(m_commands, sub_commands, nUpdates, "start")

\* FinishBlock()
FinishBlock ==
  /\ m_blockForced' = FALSE
  /\ op' = "finish"
  /\ DumpBatch(m_commands, sub_commands, nUpdates, "finish")

\* variant: notify() called before the push_back
Submit_notifyfirst(command) ==
  LET cmds == Append(m_commands, command)
      snaps == NotifySnap(m_commands, sub_commands)
      upd == NotifyCount(nUpdates)
  IN /\ op' = "submit"
     /\ UNCHANGED m_blockForced
     /\ IF SizeTriggered(m_blockForced, Len(cmds), m_bulkSize)
        THEN DumpBatch(cmds, snaps, upd, "submit")
        ELSE /\ m_commands' = cmds
             /\ sub_commands' = snaps
             /\ nUpdates' = upd
             /\ pc' = "idle"
             /\ UNCHANGED <<i, thr>>

\* BatchCommandProcessor::ProcessCommand(command)
Submit(command) ==
  LET cmds == Append(m_commands, command)
      snaps == NotifySnap(cmds, sub_commands)
      upd == NotifyCount(nUpdates)
  IN /\ op' = "submit"
     /\ UNCHANGED m_blockForced
     /\ IF SizeTriggered(m_blockForced, Len(cmds), m_bulkSize)
        THEN DumpBatch(cmds, snaps, upd, "submit")
        ELSE /\ m_commands' = cmds
             /\ sub_commands' = snaps
             /\ nUpdates' = upd
             /\ pc' = "idle"
             /\ UNCHANGED <<i, thr>>

\* DumpBatch: one iteration of the loop that starts a thread per live subscriber
SpawnThread ==
  /\ ~terminated
  /\ pc = "dump"
  /\ i <= Len(m_subscribers)
  /\ thr' = IF Live(m_subscribers[i])
            THEN [thr EXCEPT ![i] = [st |-> "ready", out |-> <<>>]]
            ELSE thr
  /\ i' = i + 1
  /\ UNCHANGED <<session, parts, clock, fed, m_blockDepth, m_output, m_bulkSize,
                 m_blockForced, m_commands, m_subscribers, sub_commands,
                 nUpdates, flushed, pc, op, staleRead, terminated>>

\* Output::ProcessCommand in its thread: output = BULK + Join(m_commands)
ThreadRun(k) ==
  /\ ~terminated
  /\ thr[k].st = "ready"
  /\ thr' = [thr EXCEPT ![k] = [st |-> "running", out |-> sub_commands[m_subscribers[k]]]]
  /\ UNCHANGED <<session, parts, clock, fed, m_blockDepth, m_output, m_bulkSize,
                 m_blockForced, m_commands, m_subscribers, sub_commands,
                 nUpdates, flushed, pc, op, i, staleRead, terminated>>

\* ReportWriter::GetFilename reads m_commands[0]: with an empty snapshot the
\* read is outside the vector
BadIndex(k) == m_subscribers[k] = "ReportWriter" /\ thr[k].out = <<>>

\* Output::ProcessCommand in its thread: the output is written, the thread
\* ends; after a read outside the vector the write may go through (to a file
\* named from whatever was read) or the process may die
ThreadEnd(k) ==
  /\ ~terminated
  /\ thr[k].st = "running"
  /\ \E crash \in (IF BadIndex(k) THEN BOOLEAN ELSE {FALSE}) :
       IF crash
       THEN /\ terminated' = TRUE
            /\ UNCHANGED <<flushed, thr>>
       ELSE /\ flushed' = [flushed EXCEPT ![m_subscribers[k]] = Append(@, thr[k].out)]
            /\ thr' = [thr EXCEPT ![k].st = "done"]
            /\ UNCHANGED terminated
  /\ UNCHANGED <<session, parts, clock, fed, m_blockDepth, m_output, m_bulkSize,
                 m_blockForced, m_commands, m_subscribers, sub_commands,
                 nUpdates, pc, op, i, staleRead>>

\* DumpBatch: every thread joined, then ClearBatch(), then return
JoinAndClear ==
  /\ ~terminated
  /\ pc = "dump"
  /\ i > Len(m_subscribers)
  /\ Joined
  /\ thr' = [k \in DOMAIN thr |-> IF thr[k].st = "done" THEN NoThread ELSE thr[k]]
  /\ ClearBatch(sub_commands, nUpdates)
  /\ pc' = Return(op)
  /\ UNCHANGED <<session, parts, clock, fed, m_blockDepth, m_output, m_bulkSize,
                 m_blockForced, m_subscribers, flushed, op, i, staleRead, terminated>>

\* unSubscribe(o): erase every registry entry that locks to o
UnSubscribe(subs, o) == SelectSeq(subs, LAMBDA w : w # o)

RECURSIVE ReleaseLoop(_, _, _, _)
\* ~BatchCommandProcessor: for (auto subscruber : m_subscribers) over the
\* slots 1..n the loop fixed at its start, while unSubscribe shrinks subs;
\* a slot beyond Len(subs) has been erased
ReleaseLoop(subs, k, n, stale) ==
  IF k > n THEN [subs |-> subs, stale |-> stale]
  ELSE IF k > Len(subs) THEN ReleaseLoop(subs, k + 1, n, TRUE)
  ELSE IF Live(subs[k]) THEN ReleaseLoop(UnSubscribe(subs, subs[k]), k + 1, n, stale)
  ELSE ReleaseLoop(subs, k + 1, n, stale)

\* variant: the destructor flushes without looking at m_blockForced
EngineDtor_always ==
  /\ ~terminated
  /\ pc = "dtor"
  /\ op' = "dtor"
  /\ DumpBatch(m_commands, sub_commands, nUpdates, "dtor")
  /\ UNCHANGED <<session, parts, clock, fed, m_blockDepth, m_output, m_bulkSize,
                 m_blockForced, m_subscribers, flushed, staleRead, terminated>>

\* ~BatchCommandProcessor, first statement: if (!m_blockForced) DumpBatch();
EngineDtor ==
  /\ ~terminated
  /\ pc = "dtor"
  /\ op' = "dtor"
  /\ IF ~m_blockForced
     THEN DumpBatch(m_commands, sub_commands, nUpdates, "dtor")
     ELSE /\ pc' = "release"
          /\ UNCHANGED <<m_commands, sub_commands, nUpdates, i, thr>>
  /\ UNCHANGED <<session, parts, clock, fed, m_blockDepth, m_output, m_bulkSize,
                 m_blockForced, m_subscribers, flushed, staleRead, terminated>>

\* ~BatchCommandProcessor, the loop that unsubscribes every live subscriber.
\* An erased slot holds a moved-from handle or a handle of the subscriber
\* just unsubscribed, so reading it either changes nothing or ends the
\* process
Release ==
  /\ ~terminated
  /\ pc = "release"
  /\ LET r == ReleaseLoop(m_subscribers, 1, Len(m_subscribers), staleRead)
     IN /\ m_subscribers' = r.subs
        /\ staleRead' = r.stale
        /\ thr' = [k \in DOMAIN r.subs |-> NoThread]
        /\ \E crash \in (IF r.stale THEN BOOLEAN ELSE {FALSE}) :
             /\ terminated' = crash
             /\ pc' = IF crash THEN "release" ELSE "gone"
  /\ UNCHANGED <<session, parts, clock, fed, m_blockDepth, m_output, m_bulkSize,
                 m_blockForced, m_commands, sub_commands, nUpdates, flushed,
                 op, i>>

\* ---- session: async::receive and async::disconnect ----
\* receive(handle, data, size): split data into its non-empty lines
Receive(data) ==
  /\ ~terminated
  /\ session = "connected"
  /\ pc = "idle"
  /\ parts = <<>>
  /\ clock + Len(Split(data)) <= MaxLines
  /\ parts' = Split(data)
  /\ UNCHANGED <<session, clock, fed, m_blockDepth, m_output, m_bulkSize,
                 m_blockForced, m_commands, m_subscribers, sub_commands,
                 nUpdates, flushed, pc, op, i, thr, staleRead, terminated>>

\* receive's loop, Command{part, now()} handed to ProcessCommand
NextPart ==
  /\ ~terminated
  /\ session = "connected"
  /\ pc = "idle"
  /\ parts # <<>>
  /\ parts' = Tail(parts)
  /\ fed' = Append(fed, Head(parts))
  /\ clock' = clock + 1
  /\ UNCHANGED <<session, m_output, m_bulkSize, m_subscribers, flushed,
                 staleRead, terminated>>

\* BatchConsoleInput::ProcessCommand, command.text == START_BLOCK
OnOpen ==
  /\ NextPart
  /\ Head(parts) = START_BLOCK
  /\ m_blockDepth' = m_blockDepth + 1
  /\ IF OpensOuter(m_blockDepth)
     THEN StartBlock
     ELSE UNCHANGED <<m_blockForced, m_commands, sub_commands, nUpdates, pc,
                      op, i, thr>>

\* BatchConsoleInput::ProcessCommand, command.text == END_BLOCK
OnClose ==
  /\ NextPart
  /\ Head(parts) = END_BLOCK
  /\ m_blockDepth' = m_blockDepth - 1
  /\ IF ClosesOuter(m_blockDepth)
     THEN FinishBlock
     ELSE UNCHANGED <<m_blockForced, m_commands, sub_commands, nUpdates, pc,
                      op, i, thr>>

\* BatchConsoleInput::ProcessCommand, any other text
OnCommand ==
  /\ NextPart
  /\ Head(parts) \notin {START_BLOCK, END_BLOCK}
  /\ Submit(Command(Head(parts), clock))
  /\ UNCHANGED m_blockDepth

\* disconnect(handle): delete h; the members of BatchConsoleInput are
\* destroyed in reverse order of declaration, m_output first, then
\* m_commandProcessor (whose destructor runs next)
Disconnect ==
  /\ ~terminated
  /\ session = "connected"
  /\ pc = "idle"
  /\ parts = <<>>
  /\ session' = "deleted"
  /\ m_output' = {}
  /\ pc' = "dtor"
  /\ UNCHANGED <<parts, clock, fed, m_blockDepth, m_bulkSize, m_blockForced,
                 m_commands, m_subscribers, sub_commands, nUpdates, flushed,
                 op, i, thr, staleRead, terminated>>

\* a flush action throws: nothing in the thread's lambda catches, the
\* exception leaves the thread function and std::terminate ends the process
ThreadThrow(k) ==
  /\ ~terminated
  /\ thr[k].st = "running"
  /\ thr' = [thr EXCEPT ![k].st = "threw"]
  /\ terminated' = TRUE
  /\ UNCHANGED <<session, parts, clock, fed, m_blockDepth, m_output, m_bulkSize,
                 m_blockForced, m_commands, m_subscribers, sub_commands,
                 nUpdates, flushed, pc, op, i, staleRead>>

Next ==
  \/ \E data \in Data : Receive(data)
  \/ OnOpen
  \/ OnClose
  \/ OnCommand
  \/ SpawnThread
  \/ \E k \in DOMAIN thr : ThreadRun(k)
  \/ \E k \in DOMAIN thr : ThreadEnd(k)
  \/ JoinAndClear
  \/ Disconnect
  \/ EngineDtor
  \/ Release

Spec == Init /\ [][Next]_vars

\* the same program with flush actions that may throw
NextFail == Next \/ \E k \in DOMAIN thr : ThreadThrow(k)

SpecFail == Init /\ [][NextFail]_vars

\* ---- the engine driven directly by an owner of the subscribers ----
\* after BatchCommandProcessor(bulkSize), the owner holding both subscribers
InitEngine ==
  /\ session = "engine"
  /\ parts = <<>>
  /\ clock = 0
  /\ fed = <<>>
  /\ m_blockDepth = 0
  /\ m_output = Subs
  /\ m_bulkSize \in 1..MaxBulk
  /\ m_blockForced = FALSE
  /\ m_commands = <<>>
  /\ m_subscribers = <<>>
  /\ sub_commands = [s \in Subs |-> <<>>]
  /\ nUpdates = [s \in Subs |-> 0]
  /\ flushed = [s \in Subs |-> <<>>]
  /\ pc = "idle"
  /\ op = "none"
  /\ i = 1
  /\ thr = <<>>
  /\ staleRead = FALSE
  /\ terminated = FALSE

\* the owner is between two calls into the engine
OwnerTurn == ~terminated /\ session = "engine" /\ pc = "idle"

\* one action of the owner; the clock moves on
OwnerCall ==
  /\ OwnerTurn
  /\ clock < MaxOps
  /\ clock' = clock + 1
  /\ UNCHANGED <<session, parts, fed, m_blockDepth, m_bulkSize, flushed,
                 staleRead, terminated>>

\* subscribe(o): if (o) m_subscribers.push_back(o)
Subscribe(o) ==
  /\ OwnerCall
  /\ o \in m_output
  /\ Len(m_subscribers) < MaxRegs
  /\ m_subscribers' = Append(m_subscribers, o)
  /\ thr' = Append(thr, NoThread)
  /\ UNCHANGED <<m_output, m_blockForced, m_commands, sub_commands, nUpdates,
                 pc, op, i>>

\* unSubscribe(o) called by the owner
UnSubscribeCall(o) ==
  /\ OwnerCall
  /\ o \in m_output
  /\ m_subscribers' = UnSubscribe(m_subscribers, o)
  /\ thr' = [k \in DOMAIN m_subscribers' |-> NoThread]
  /\ UNCHANGED <<m_output, m_blockForced, m_commands, sub_commands, nUpdates,
                 pc, op, i>>

\* the owner drops its shared_ptr: the subscriber is destroyed, the weak
\* handles of the registry expire
OwnerDestroy(o) ==
  /\ OwnerCall
  /\ o \in m_output
  /\ m_output' = m_output \ {o}
  /\ UNCHANGED <<m_blockForced, m_commands, m_subscribers, sub_commands,
                 nUpdates, pc, op, i, thr>>

CallSubmit ==
  /\ OwnerCall
  /\ Submit(Command(<<"a">>, clock))
  /\ UNCHANGED <<m_output, m_subscribers>>

CallStartBlock ==
  /\ OwnerCall
  /\ StartBlock
  /\ UNCHANGED <<m_output, m_subscribers>>

CallFinishBlock ==
  /\ OwnerCall
  /\ FinishBlock
  /\ UNCHANGED <<m_output, m_subscribers>>

\* the owner destroys the engine
Teardown ==
  /\ OwnerTurn
  /\ session' = "deleted"
  /\ pc' = "dtor"
  /\ UNCHANGED <<parts, clock, fed, m_blockDepth, m_output, m_bulkSize,
                 m_blockForced, m_commands, m_subscribers, sub_commands,
                 nUpdates, flushed, op, i, thr, staleRead, terminated>>

NextEngine ==
  \/ \E o \in Subs : Subscribe(o)
  \/ \E o \in Subs : UnSubscribeCall(o)
  \/ \E o \in Subs : OwnerDestroy(o)
  \/ CallSubmit
  \/ CallStartBlock
  \/ CallFinishBlock
  \/ Teardown
  \/ SpawnThread
  \/ \E k \in DOMAIN thr : ThreadRun(k)
  \/ \E k \in DOMAIN thr : ThreadEnd(k)
  \/ JoinAndClear
  \/ EngineDtor
  \/ Release

SpecEngine == InitEngine /\ [][NextEngine]_vars

\* ---- vocabulary of the properties ----
IsMarker(t) == t \in {START_BLOCK, END_BLOCK}

\* the commands among the first n lines fed, with their time stamps
RECURSIVE SubmittedUpTo(_, _)
SubmittedUpTo(f, n) ==
  IF n = 0 THEN <<>>
  ELSE IF IsMarker(f[n]) THEN SubmittedUpTo(f, n - 1)
  ELSE Append(SubmittedUpTo(f, n - 1), Command(f[n], n - 1))

Submitted(f) == SubmittedUpTo(f, Len(f))

\* the commands fed after line p
SubmittedAfter(f, p) ==
  SelectSeq(Submitted(f), LAMBDA c : c.timeStamp >= p)

\* the batches of one subscriber, concatenated
RECURSIVE Flat(_)
Flat(bs) == IF bs = <<>> THEN <<>> ELSE Head(bs) \o Flat(Tail(bs))

\* nesting depth of the markers in a line history, an unmatched Close
\* leaving the depth at 0
RECURSIVE Nest(_)
Nest(f) ==
  IF f = <<>> THEN 0
  ELSE LET d == Nest(SubSeq(f, 1, Len(f) - 1))
           t == f[Len(f)]
       IN IF t = START_BLOCK THEN d + 1
          ELSE IF t = END_BLOCK THEN (IF d > 0 THEN d - 1 ELSE 0)
          ELSE d

\* opens minus closes
RECURSIVE Balance(_)
Balance(f) ==
  IF f = <<>> THEN 0
  ELSE LET d == Balance(SubSeq(f, 1, Len(f) - 1))
           t == f[Len(f)]
       IN IF t = START_BLOCK THEN d + 1
          ELSE IF t = END_BLOCK THEN d - 1
          ELSE d

Prefix(f, n) == SubSeq(f, 1, n)

\* line of the Open marker that opened the outermost block still open after
\* the first n lines (0 if none), by nesting
OuterOpen(f, n) ==
  LET c == { p \in 1..n : f[p] = START_BLOCK /\ Nest(Prefix(f, p - 1)) = 0 }
  IN IF c = {} THEN 0 ELSE CHOOSE p \in c : \A q \in c : q <= p

\* the same by the session's counter: the last Open met at m_blockDepth 0
OuterOpenByDepth(f, n) ==
  LET c == { p \in 1..n : f[p] = START_BLOCK /\ Balance(Prefix(f, p - 1)) = 0 }
  IN IF c = {} THEN 0 ELSE CHOOSE p \in c : \A q \in c : q <= p

NoMarkers(f) == \A k \in 1..Len(f) : ~IsMarker(f[k])

Running(k) == thr[k].st \in {"ready", "running"}

\* the steps in which the session handles an Open, a Close marker
OpenStep == pc = "idle" /\ parts # <<>> /\ Head(parts) = START_BLOCK /\ fed' # fed
CloseStep == pc = "idle" /\ parts # <<>> /\ Head(parts) = END_BLOCK /\ fed' # fed

EngineUntouched ==
  UNCHANGED <<m_blockForced, m_commands, sub_commands, nUpdates, flushed, pc, i, thr>>

\* the steps that enter DumpBatch with nothing pending
EmptyDumpStep ==
  /\ m_commands = <<>>
  /\ \/ OpenStep /\ m_blockDepth = 0
     \/ CloseStep /\ m_blockDepth = 1
     \/ pc = "dtor" /\ pc' # "dtor" /\ ~m_blockForced

\* ---- C1 ----
\* C1: when disconnect tears a session down with no block open, every
\* subscriber has been handed, by the end of the teardown, every command the
\* session submitted: the pending batch is flushed, nothing is lost.
C1Claim ==
  (pc = "gone" /\ ~m_blockForced) =>
     \A s \in Subs : Flat(flushed[s]) = Submitted(fed)

\* ---- C2 ----
\* C2: with no block markers in the input, once the lines are processed
\* every subscriber's flushed batches followed by the pending batch are the
\* input, in order; and at least one flush occurred once the input has
\* reached a threshold >= 1.
C2Theorem ==
  (session = "connected" /\ pc = "idle" /\ NoMarkers(fed)) =>
     \A s \in Subs :
        /\ Flat(flushed[s]) \o m_commands = Submitted(fed)
        /\ (m_bulkSize >= 1 /\ Len(fed) >= m_bulkSize) => flushed[s] # <<>>

C2Witness ==
  /\ session = "connected" /\ pc = "idle" /\ NoMarkers(fed)
  /\ m_bulkSize = 3 /\ Len(fed) = 4
  /\ \A s \in Subs : flushed[s] = << SubSeq(Submitted(fed), 1, 3) >>
  /\ m_commands = SubSeq(Submitted(fed), 4, 4)

\* ---- C3 ----
\* C3: while a block is open, no submission starts a flush: no subscriber
\* flush action runs between the outermost Open and its Close.
C3Claim ==
  (Nest(fed) > 0 /\ op = "submit") => pc # "dump"

\* ---- C4 ----
\* C4: once the Close of the outermost block is processed, nothing is
\* pending, the last batch each subscriber flushed is the whole content of
\* the block, in order, and no flush action ran on an empty batch.
C4Claim ==
  (session = "connected" /\ pc = "idle" /\ fed # <<>>
     /\ fed[Len(fed)] = END_BLOCK /\ Nest(Prefix(fed, Len(fed) - 1)) = 1) =>
     LET inside == SubmittedAfter(fed, OuterOpen(fed, Len(fed) - 1))
     IN /\ m_commands = <<>>
        /\ \A s \in Subs :
             /\ \A b \in 1..Len(flushed[s]) : flushed[s][b] # <<>>
             /\ inside # <<>> =>
                  (flushed[s] # <<>> /\ flushed[s][Len(flushed[s])] = inside)

\* ---- C5 ----
\* C5: the block nesting depth never goes below 0.
C5Claim == m_blockDepth >= 0

\* ---- C6 ----
\* C6: only an Open met at depth 0 calls StartBlock and only a Close taking
\* the depth from 1 to 0 calls FinishBlock; the markers inside leave the hold
\* flag, the pending batch and the subscribers alone; no submission flushes
\* while the depth is positive, and the commands of the block are flushed as
\* one batch when the outer Close has been handled.
C6Step ==
  /\ (OpenStep /\ m_blockDepth >= 1) => EngineUntouched
  /\ (OpenStep /\ m_blockDepth = 0) =>
        (m_blockForced' /\ op' = "start"
           /\ IF m_commands = <<>> THEN nUpdates' # nUpdates ELSE pc' = "dump")
  /\ (CloseStep /\ m_blockDepth >= 2) => EngineUntouched
  /\ (CloseStep /\ m_blockDepth = 1) =>
        (~m_blockForced' /\ op' = "finish"
           /\ IF m_commands = <<>> THEN nUpdates' # nUpdates ELSE pc' = "dump")

C6State ==
  /\ (session = "connected" /\ m_blockDepth >= 1 /\ op = "submit") =>
        (pc = "idle" /\ m_blockForced
           /\ m_commands = SubmittedAfter(fed, OuterOpenByDepth(fed, Len(fed))))
  /\ (session = "connected" /\ pc = "idle" /\ fed # <<>>
        /\ fed[Len(fed)] = END_BLOCK /\ m_blockDepth = 0) =>
        LET inside == SubmittedAfter(fed, OuterOpenByDepth(fed, Len(fed) - 1))
        IN /\ m_commands = <<>>
           /\ \A s \in Subs :
                inside # <<>> =>
                  (flushed[s] # <<>> /\ flushed[s][Len(flushed[s])] = inside)

C6Theorem == [](C6State) /\ [][C6Step]_vars

C6Witness ==
  /\ pc = "idle" /\ op = "finish" /\ m_blockDepth = 0
  /\ fed = <<START_BLOCK, START_BLOCK, <<"a">>, END_BLOCK, <<"a">>, END_BLOCK>>
  /\ \A s \in Subs : flushed[s] = << <<Command(<<"a">>, 2), Command(<<"a">>, 4)>> >>

\* ---- C7 ----
\* C7: while a subscriber's flush action is ready or running, the engine is
\* inside DumpBatch before its ClearBatch: the batch is still pending, that
\* subscriber's snapshot is that batch, and no step clears the batch, hands
\* any subscriber a snapshot or takes a next line.
C7State ==
  \A k \in DOMAIN thr :
     Running(k) =>
       /\ pc = "dump"
       /\ m_commands # <<>>
       /\ sub_commands[m_subscribers[k]] = m_commands

C7Step ==
  (\E k \in DOMAIN thr : Running(k)) =>
     UNCHANGED <<m_commands, sub_commands, nUpdates, fed, parts, session>>

C7Theorem == [](C7State) /\ [][C7Step]_vars

C7Witness ==
  /\ pc = "dump"
  /\ \A k \in DOMAIN thr : thr[k].st = "running" /\ thr[k].out = m_commands
  /\ Len(m_commands) = 2

\* ---- C8 ----
\* C8: a flush action that fails is contained: the process keeps running, so
\* the other flush actions can complete, the flush can return and the engine
\* can clear the batch and take further commands.
C8Claim ==
  \A k \in DOMAIN thr : thr[k].st = "threw" => ~terminated

\* ---- C9 ----
\* C9 as first stated: a flush requested with nothing pending invokes no
\* flush action and notifies no subscriber.
C9Claim ==
  [][EmptyDumpStep =>
       (nUpdates' = nUpdates /\ flushed' = flushed /\ pc' # "dump"
          /\ thr' = thr)]_vars

\* C9, amended: a flush requested with nothing pending invokes no flush
\* action and leaves the pending batch empty, and the engine still notifies
\* every live subscriber, once per registration, with the empty snapshot;
\* a subscriber that is not live is left alone.
C9Theorem ==
  [][EmptyDumpStep =>
       /\ flushed' = flushed /\ thr' = thr /\ pc' # "dump"
       /\ m_commands' = <<>>
       /\ \A s \in Subs :
            LET regs == Cardinality({ k \in DOMAIN m_subscribers :
                                        m_subscribers[k] = s })
            IN IF Live(s) /\ regs > 0
               THEN sub_commands'[s] = <<>> /\ nUpdates'[s] = nUpdates[s] + regs
               ELSE sub_commands'[s] = sub_commands[s]
                      /\ nUpdates'[s] = nUpdates[s]]_vars

C9Witness ==
  /\ fed = <<<<"a">>, START_BLOCK, END_BLOCK>>
  /\ pc = "idle" /\ op = "finish"
  /\ m_commands = <<>>
  /\ \A s \in Subs : nUpdates[s] = 3 /\ Len(flushed[s]) = 1

\* ---- C10 ----
\* C10: a Close marker met while no block is open starts no flush and leaves
\* the hold flag, the pending batch, the snapshots and the notification
\* counts as they were.
C10Theorem ==
  [][(CloseStep /\ (m_blockDepth = 0 \/ Nest(fed) = 0)) => EngineUntouched]_vars

C10Witness ==
  /\ fed = <<<<"a">>, END_BLOCK>>
  /\ pc = "idle"
  /\ m_blockDepth = -1
  /\ ~m_blockForced
  /\ Len(m_commands) = 1

\* ---- C11 ----
\* C11: the step that handles a command line appends the command to the
\* pending batch and hands the new pending batch to every live subscriber,
\* and no flush thread exists yet when it has done so.
SubmitStep ==
  pc = "idle" /\ parts # <<>> /\ ~IsMarker(Head(parts)) /\ fed' # fed

Registered(s) == \E k \in DOMAIN m_subscribers : m_subscribers[k] = s

C11Theorem ==
  [][SubmitStep =>
       /\ m_commands' = Append(m_commands, Command(Head(parts), clock))
       /\ \A s \in Subs :
            (Live(s) /\ Registered(s)) =>
               (sub_commands'[s] = m_commands' /\ nUpdates'[s] = nUpdates[s] + 1)
       /\ \A k \in DOMAIN thr' : thr'[k].st = "none"]_vars

C11Witness ==
  /\ session = "connected" /\ pc = "idle" /\ op = "submit"
  /\ m_bulkSize = 3 /\ Len(m_commands) = 2
  /\ \A s \in Subs : sub_commands[s] = m_commands /\ nUpdates[s] = 2

\* ---- C12 ----
\* C12: once startHold has returned nothing is pending, and no batch handed
\* to a flush action holds a command submitted outside any block together
\* with a later command submitted inside a block.
OutsideBlock(c) == Nest(Prefix(fed, c.timeStamp)) = 0

C12Claim ==
  /\ (session = "connected" /\ pc = "idle" /\ op = "start") => m_commands = <<>>
  /\ \A s \in Subs : \A b \in 1..Len(flushed[s]) :
       \A x, y \in 1..Len(flushed[s][b]) :
          (x < y /\ OutsideBlock(flushed[s][b][x])) => OutsideBlock(flushed[s][b][y])

\* ---- C13 ----
\* C13: the batches handed to a subscriber's flush action, put end to end,
\* are a prefix of the commands submitted, so no command is flushed twice;
\* and the step that ends a flush cycle finds one finished flush action per
\* live subscriber, on the pending batch, and leaves the batch empty.
IsPrefix(a, b) == Len(a) <= Len(b) /\ a = SubSeq(b, 1, Len(a))

C13State ==
  \A s \in Subs :
     /\ IsPrefix(Flat(flushed[s]), Submitted(fed))
     /\ \A b \in 1..Len(flushed[s]) : flushed[s][b] # <<>>

C13Step ==
  (pc = "dump" /\ pc' # "dump") =>
     /\ m_commands' = <<>>
     /\ \A s \in Subs :
          (Live(s) /\ Registered(s)) =>
             /\ Cardinality({ k \in DOMAIN thr :
                   m_subscribers[k] = s /\ thr[k].st = "done" }) = 1
             /\ flushed[s] # <<>>
             /\ flushed[s][Len(flushed[s])] = m_commands

C13Theorem == [](C13State) /\ [][C13Step]_vars

C13Witness ==
  /\ session = "connected" /\ pc = "idle" /\ m_bulkSize = 2
  /\ NoMarkers(fed) /\ Len(fed) = 5
  /\ \A s \in Subs : Len(flushed[s]) = 2 /\ Flat(flushed[s]) = SubSeq(Submitted(fed), 1, 4)
  /\ Len(m_commands) = 1

\* ---- C14 ----
\* C14: the destructor of the engine starts the final flush only with the
\* hold flag off; with the flag on it goes straight to releasing the
\* handles, no flush action runs during the teardown and the commands still
\* pending are in no batch any subscriber flushed.
DtorStep == pc = "dtor" /\ pc' # "dtor"

C14Step ==
  DtorStep =>
     IF m_blockForced
     THEN /\ pc' = "release"
          /\ UNCHANGED <<thr, flushed, m_commands, sub_commands, nUpdates>>
     ELSE m_commands # <<>> => pc' = "dump"

C14State ==
  (session = "deleted" /\ m_blockForced) =>
     /\ pc # "dump"
     /\ \A k \in DOMAIN thr : thr[k].st = "none"
     /\ \A s \in Subs : \A b \in 1..Len(flushed[s]) :
          \A x \in 1..Len(flushed[s][b]) : \A y \in 1..Len(m_commands) :
             flushed[s][b][x] # m_commands[y]

C14Theorem == [](C14State) /\ [][C14Step]_vars

C14Witness ==
  /\ session = "deleted" /\ pc = "gone" /\ m_blockForced
  /\ Len(m_commands) = 2
  /\ "ConsoleOutput" \in m_output
  /\ sub_commands["ConsoleOutput"] = m_commands
  /\ flushed["ConsoleOutput"] = <<>>

\* ---- C15 ----
\* C15: a registered subscriber its owner has destroyed gets no update, no
\* flush thread and no flush from then on, and the spawn loop just passes its
\* slot; every notification still hands the pending batch to each live
\* registered subscriber and every flush cycle still ends with one finished
\* flush action per slot of a live subscriber; outside a flush in progress
\* only the owner keeps a subscriber alive.
Dead(s) == s \notin m_output

C15Step ==
  /\ \A s \in Subs :
       Dead(s) =>
          /\ sub_commands'[s] = sub_commands[s]
          /\ nUpdates'[s] = nUpdates[s]
          /\ flushed'[s] = flushed[s]
  /\ (pc = "dump" /\ i <= Len(m_subscribers) /\ i' # i /\ Dead(m_subscribers[i])) =>
        (thr' = thr /\ ~terminated' /\ pc' = "dump")
  /\ nUpdates' # nUpdates =>
        \A s \in Subs :
           (~Dead(s) /\ Registered(s)) => sub_commands'[s] = m_commands'
  /\ (pc = "dump" /\ pc' # "dump") =>
        \A k \in DOMAIN thr :
           thr[k].st = (IF Dead(m_subscribers[k]) THEN "none" ELSE "done")

C15State ==
  /\ \A k \in DOMAIN thr : Dead(m_subscribers[k]) => thr[k].st = "none"
  /\ pc # "dump" => \A s \in Subs : Live(s) => ~Dead(s)

C15Theorem == [](C15State) /\ [][C15Step]_vars

C15Witness ==
  /\ session = "engine" /\ pc = "idle"
  /\ m_subscribers = <<"ReportWriter", "ConsoleOutput">>
  /\ m_output = {"ConsoleOutput"}
  /\ Len(flushed["ConsoleOutput"]) = 1
  /\ flushed["ReportWriter"] = <<>>
  /\ sub_commands["ReportWriter"] # <<>>
  /\ sub_commands["ConsoleOutput"] = <<>>

\* ---- C16 ----
\* C16: an Open marker met while no block is open calls startHold, whatever
\* unmatched Close markers came before: the hold flag is on once the Open is
\* handled, and stays on, with no flush started by a submission, while that
\* block is open.
C16Claim ==
  [][/\ (OpenStep /\ Nest(fed) = 0) => (m_blockForced' /\ op' = "start")
     /\ (SubmitStep /\ Nest(fed) > 0) => (m_blockForced /\ pc' = "idle")]_vars

\* ---- C17 ----
\* C17: a flush action that is about to run or is running works on a
\* snapshot that is the pending batch of the engine, and that batch is not
\* empty.
C17Claim ==
  \A k \in DOMAIN thr :
     /\ thr[k].st = "ready" =>
          (sub_commands[m_subscribers[k]] = m_commands /\ m_commands # <<>>)
     /\ thr[k].st = "running" =>
          (thr[k].out = m_commands /\ m_commands # <<>>)

\* ---- C18 ----
\* C18: at no time are two flush actions of one subscriber in flight.
C18Claim ==
  \A s \in Subs :
     Cardinality({ k \in DOMAIN thr : m_subscribers[k] = s /\ Running(k) }) <= 1

\* ---- C19 ----
\* C19: the hold flag of the engine is on exactly when the session's depth
\* counter is positive.
C19Theorem ==
  session # "engine" => (m_blockForced <=> m_blockDepth > 0)

C19Witness ==
  /\ session = "connected" /\ pc = "idle"
  /\ fed = <<END_BLOCK, START_BLOCK, START_BLOCK, <<"a">>>>
  /\ m_blockDepth = 1 /\ m_blockForced
  /\ Len(m_commands) = 1

\* ---- C20 ----
\* C20: the release loop of the destructor reads no slot the registry no
\* longer has, does not end the process, and leaves no handle of a live
\* subscriber in the registry.
C20Claim ==
  /\ ~staleRead
  /\ ~(pc = "release" /\ terminated)
  /\ pc = "gone" => \A k \in DOMAIN m_subscribers : Dead(m_subscribers[k])

====
